---- MODULE Spec2Model ----
(***************************************************************************)
(* keisho: single-inheritance class hierarchies over plain objects.        *)
(* The model covers src/src/lib.rs: the Upcastable relation, the per-class *)
(* ClassInfo (depth, downable, vtable), the layered dispatch table built   *)
(* by Vt::new / Vt::override, and Handle with From, Drop, upcast,          *)
(* downcast, downcast_ref, downcast_mut, virtual and virtual_mut.          *)
(*                                                                         *)
(* A class is named by its path from the root: Object is <<>>, and the     *)
(* class <<1, 2>> is the second child of the first child of Object.        *)
(* The hierarchy is a chain of MaxDepth classes below Object with one      *)
(* sibling beside each class of the chain.                                 *)
(***************************************************************************)
EXTENDS Integers, Sequences, FiniteSets

\* ------------------------------------------------------------------ bounds
MaxDepth == 2       \* deepest class of the hierarchy
MaxOverrides == 2   \* vt!(override: ...) entries in the whole program
MaxHandles == 2     \* handles alive at the same time
MaxDrops == 2       \* from_raw calls per object

Sibling == {1, 2}

VARIABLES
    overrides,  \* class -> the types listed in its vt!(override: ...)
    handles,    \* slot -> Handle { ptr, info } with its type parameter P
    built,      \* the handle Handle::from built, as it was built
    intoRaw,    \* into_raw calls (Handle::from)
    fromRaw,    \* from_raw calls made by Drop of the handles that own the pointer
    reRaw,      \* from_raw calls made by Drop of the borrowing handles
    last        \* the most recent operation and its result

vars == <<overrides, handles, built, intoRaw, fromRaw, reRaw, last>>

\* ----------------------------------------------------------- the hierarchy
Object == <<>>

\* The first chain: Object, <<1>>, <<1, 1>>, ..., down to MaxDepth.
FirstOfLen(n) == [k \in 1..n |-> 1]

\* The classes: the first chain, and beside each of its classes one sibling.
Classes ==
    {Object} \cup
    {Append(FirstOfLen(n - 1), s) : n \in 1..MaxDepth, s \in Sibling}

\* Pointed<T> = <T as Deref>::Target: the parent class.
Pointed(T) == SubSeq(T, 1, Len(T) - 1)

\* A type that takes part in no hierarchy.
Foreign == <<0>>

\* type_id::<T>(): one identity per type.
type_id(T) == T

TypeIds == {type_id(T) : T \in Classes} \cup {type_id(Foreign)}

\* T: Upcastable<U>
RECURSIVE Upcastable(_, _)
Upcastable(T, U) ==
    IF T = Object THEN U = Object
    ELSE U = Pointed(T) \/ Upcastable(Pointed(T), U)

\* The chain of C: C, its parent, ..., Object.
RECURSIVE Chain(_)
Chain(C) == IF C = Object THEN {Object} ELSE {C} \cup Chain(Pointed(C))

\* ------------------------------------------------------------- ClassInfo
\* depth: u16
U16 == 65536

\* ClassInfo::depth. The sum is evaluated in a const, where an overflow of
\* the u16 is a compile error: a hierarchy deeper than U16 - 1 does not build.
RECURSIVE depth(_)
depth(C) == IF C = Object THEN 0 ELSE depth(Pointed(C)) + 1

\* ClassInfo::downable: |_| false for Object,
\* |id| type_id::<Self>() == id || (Pointed::<T>::INFO.downable)(id) below it.
RECURSIVE downable(_, _)
downable(C, id) ==
    IF C = Object THEN FALSE
    ELSE type_id(C) = id \/ downable(Pointed(C), id)

\* ------------------------------------------------------- dispatch tables
\* The closure |this| this written in class impl and coerced to dyn's view.
Conv(impl, dyn) == [impl |-> impl, dyn |-> dyn]

NoConv == Conv(Foreign, Foreign)

RECURSIVE vsize(_)
vsize(V) == IF V = Object THEN 1 ELSE 1 + vsize(Pointed(V))

RECURSIVE TABLE(_)

\* Vt::new with the parent's table put before the own-level slot
VtNew_parent_first(VRoot) == TABLE(Pointed(VRoot)) \o <<Conv(VRoot, VRoot)>>

\* Vt::<VRoot>::new(|this| this)
VtNew(VRoot) == <<Conv(VRoot, VRoot)>> \o TABLE(Pointed(VRoot))

\* override with the slot counted from the root's end of the table
override_from_root(vt, VRoot, V) ==
    [vt EXCEPT ![vsize(V)] = Conv(VRoot, V)]

\* vt.override::<V>(|this| this): array[len - sub] = f
override(vt, VRoot, V) ==
    LET len == vsize(VRoot)
        sub == vsize(V)
    IN  [vt EXCEPT ![(len - sub) + 1] = Conv(VRoot, V)]

\* vt!(override: T1, T2, ...): the overrides applied one after the other.
RECURSIVE vtOverrides(_, _, _)
vtOverrides(vt, VRoot, Ts) ==
    IF Ts = {} THEN vt
    ELSE LET T == CHOOSE t \in Ts : TRUE
         IN  vtOverrides(override(vt, VRoot, T), VRoot, Ts \ {T})

\* <C as Virtual>::TABLE
TABLE(C) ==
    IF C = Object THEN <<Conv(Object, Object)>>
    ELSE vtOverrides(VtNew(C), C, overrides[C])

\* ---------------------------------------------------------------- handles
\* One object is wrapped, at one of these addresses.
Addr == {1, 2}
Slots == 1..MaxHandles
Kinds == {"ref", "mut"}

\* Handle<P> { ptr, info }: P = &T or &mut T; of = the slot it borrows from.
Handle(ptr, info, kind, T, of) ==
    [ptr |-> ptr, info |-> info, kind |-> kind, T |-> T, of |-> of]

NoHandle == Handle(0, Object, "none", Object, 0)

Live(i) == handles[i] # NoHandle

\* impl From<P> for Handle<P>
from(a, kind, T) == Handle(a, T, kind, T, 0)

\* upcast with the descriptor taken from the target type: info: &Pointed::<Q>::INFO
upcast_rebinds(h, Q) == Handle(h.ptr, Q, h.kind, Q, h.of)

\* Handle::upcast::<Q>: Handle { ptr: self.ptr.cast(), info: self.info }
upcast(h, Q) == Handle(h.ptr, h.info, h.kind, Q, h.of)

upcastOk(h, Q) == Upcastable(h.T, Q) /\ Upcastable(Q, Object)

\* downcast without the runtime check
downcast_unchecked(h, Q) ==
    [ok |-> TRUE, h |-> Handle(h.ptr, h.info, h.kind, Q, h.of)]

\* Handle::downcast::<Q>: Ok(Handle { ptr: self.ptr.cast(), info }) or Err(self)
downcast(h, Q) ==
    IF downable(h.info, type_id(Q))
    THEN [ok |-> TRUE, h |-> Handle(h.ptr, h.info, h.kind, Q, h.of)]
    ELSE [ok |-> FALSE, h |-> h]

downcastOk(h, Q) == Upcastable(Q, h.T) /\ Upcastable(h.T, Object)

\* downcast_ref without the runtime check
downcast_ref_unchecked(h, U, i) == Handle(h.ptr, h.info, "ref", U, i)

\* Handle::downcast_ref::<U> / Handle::downcast_mut::<U>: Some(handle) or None.
downcast_ref(h, U, i) ==
    IF downable(h.info, type_id(U)) THEN Handle(h.ptr, h.info, "ref", U, i)
    ELSE NoHandle

downcast_mut(h, U, i) ==
    IF downable(h.info, type_id(U)) THEN Handle(h.ptr, h.info, "mut", U, i)
    ELSE NoHandle

downcast_refOk(h, U) == Upcastable(U, h.T) /\ Upcastable(h.T, Object)

\* P: DerefMut, and Pointed<P>: DerefMut (no impl for Object)
downcast_mutOk(h, U) ==
    /\ h.kind = "mut"
    /\ Upcastable(U, h.T) /\ Upcastable(h.T, Object)
    /\ h.T # Object

\* The outcome of a u16 operation that panicked: no u16.
Panic == -1

\* The u16 subtraction of map_to_virtual, as the set of its outcomes: the
\* difference when a >= b; otherwise a panic ('attempt to subtract with
\* overflow') in a build with overflow checks and the wrapped value in a
\* build without them.
U16Sub(a, b) == IF a >= b THEN {a - b} ELSE {Panic, (a - b) % U16}

\* The subtraction with its operands swapped
offsetOf_swapped(h) == U16Sub(depth(h.T), depth(h.info))

\* Handle::map_to_virtual: the slot read from the concrete class's table.
offsetOf(h) == U16Sub(depth(h.info), depth(h.T))

\* vtable.add(offset).read(): a read past the table yields any value.
AllConvs == {Conv(C, V) : C \in Classes, V \in Classes} \cup {NoConv}

\* The outcomes of map_to_virtual: a panic in the subtraction, or the
\* function read from the slot.
map_to_virtual(h) ==
    LET vtable == TABLE(h.info)
        read(offset) ==
            IF offset = Panic THEN {[panic |-> TRUE, f |-> NoConv]}
            ELSE IF offset + 1 <= Len(vtable)
                 THEN {[panic |-> FALSE, f |-> vtable[offset + 1]]}
                 ELSE {[panic |-> FALSE, f |-> c] : c \in AllConvs}
    IN  UNION {read(offset) : offset \in offsetOf(h)}

\* Handles that borrow handle i (&self / &mut self held by a returned handle).
Borrowers(i) == {j \in Slots : handles[j] # NoHandle /\ handles[j].of = i}

MutBorrowers(i) == {j \in Borrowers(i) : handles[j].kind = "mut"}

\* The record of the most recent operation: the handle it was called on, its
\* result, the operation before it and the from_raw counts it started from.
Last(op, src, Q, ok, before, after, conv) ==
    [op |-> op, src |-> src, Q |-> Q, ok |-> ok, before |-> before,
     after |-> after, conv |-> conv, prev |-> last.op,
     rel |-> <<fromRaw, reRaw>>]

\* impl Drop for Handle<P>: P::from_raw(self.ptr)
DropRuns(h) ==
    IF h.of = 0
    THEN fromRaw' = fromRaw + 1 /\ UNCHANGED reRaw
    ELSE reRaw' = reRaw + 1 /\ UNCHANGED fromRaw

Drops == fromRaw + reRaw

\* Handles are numbered in the order of their creation: the lowest free slot.
FreeSlot(i) == ~Live(i) /\ \A k \in Slots : k < i => Live(k)

FirstChain == {FirstOfLen(n) : n \in 0..MaxDepth}

\* An override entry <<C, V>>: class C lists V, a class of its own chain.
OverridePairs == {p \in (FirstChain \ {Object}) \X FirstChain : p[2] \in Chain(p[1])}

RECURSIVE SubsetsUpTo(_, _)
SubsetsUpTo(S, k) ==
    IF k = 0 THEN {{}}
    ELSE LET prev == SubsetsUpTo(S, k - 1)
         IN  prev \cup {s \cup {p} : s \in prev, p \in S}

ProgramOf(S) == [C \in Classes |-> {V \in Classes : <<C, V>> \in S}]

\* The program of the scenario Object <- Animal <- Dog, and Cat beside Dog:
\* Dog overrides the Animal level.
Animal == <<1>>
Dog == <<1, 1>>
Cat == <<1, 2>>
Scenario == ProgramOf({<<Dog, Animal>>})

InitHandles ==
    /\ handles = [i \in Slots |-> NoHandle]
    /\ built = NoHandle
    /\ intoRaw = 0
    /\ fromRaw = 0
    /\ reRaw = 0
    /\ last = [op |-> "init", src |-> 0, Q |-> Object, ok |-> TRUE,
               before |-> NoHandle, after |-> NoHandle, conv |-> NoConv,
               prev |-> "init", rel |-> <<0, 0>>]

\* The scenario program, before any handle exists.
Init == overrides = Scenario /\ InitHandles

\* Every program with at most MaxOverrides override entries on the first chain.
InitVt ==
    /\ \E S \in SubsetsUpTo(OverridePairs, MaxOverrides) : overrides = ProgramOf(S)
    /\ InitHandles

\* Handle::from(ptr): ptr.into_raw(), info = &Pointed::<P>::INFO
From(i, a, kind, T) ==
    /\ FreeSlot(i)
    /\ intoRaw = 0
    /\ built' = from(a, kind, T)
    /\ intoRaw' = intoRaw + 1
    /\ handles' = [handles EXCEPT ![i] = from(a, kind, T)]
    /\ last' = Last("from", i, T, TRUE, NoHandle, from(a, kind, T), NoConv)
    /\ UNCHANGED <<overrides, fromRaw, reRaw>>

\* handle.upcast::<Q>(): self is consumed, and dropped when upcast returns.
Upcast(i, Q) ==
    LET h == handles[i]
    IN  /\ Live(i) /\ Borrowers(i) = {}
        /\ upcastOk(h, Q)
        /\ Drops < MaxDrops
        /\ handles' = [handles EXCEPT ![i] = upcast(h, Q)]
        /\ DropRuns(h)
        /\ last' = Last("upcast", i, Q, TRUE, h, upcast(h, Q), NoConv)
        /\ UNCHANGED <<overrides, built, intoRaw>>

\* handle.downcast::<Q>(): Ok drops self when downcast returns, Err(self) moves it out.
Downcast(i, Q) ==
    LET h == handles[i]
        r == downcast(h, Q)
    IN  /\ Live(i) /\ Borrowers(i) = {}
        /\ downcastOk(h, Q)
        /\ Drops < MaxDrops
        /\ handles' = [handles EXCEPT ![i] = r.h]
        /\ IF r.ok THEN DropRuns(h) ELSE UNCHANGED <<fromRaw, reRaw>>
        /\ last' = Last("downcast", i, Q, r.ok, h, r.h, NoConv)
        /\ UNCHANGED <<overrides, built, intoRaw>>

\* handle.downcast_ref::<U>(): &self
DowncastRef(i, j, U) ==
    LET h == handles[i]
        r == downcast_ref(h, U, i)
    IN  /\ Live(i) /\ MutBorrowers(i) = {}
        /\ FreeSlot(j)
        /\ downcast_refOk(h, U)
        /\ Drops < MaxDrops
        /\ handles' = [handles EXCEPT ![j] = r]
        /\ last' = Last("downcast_ref", i, U, r # NoHandle, h, r, NoConv)
        /\ UNCHANGED <<overrides, built, intoRaw, fromRaw, reRaw>>

\* handle.downcast_mut::<U>(): &mut self
DowncastMut(i, j, U) ==
    LET h == handles[i]
        r == downcast_mut(h, U, i)
    IN  /\ Live(i) /\ Borrowers(i) = {}
        /\ FreeSlot(j)
        /\ downcast_mutOk(h, U)
        /\ Drops < MaxDrops
        /\ handles' = [handles EXCEPT ![j] = r]
        /\ last' = Last("downcast_mut", i, U, r # NoHandle, h, r, NoConv)
        /\ UNCHANGED <<overrides, built, intoRaw, fromRaw, reRaw>>

\* handle.virtual(): &self
Virtual(i) ==
    LET h == handles[i]
    IN  /\ Live(i) /\ MutBorrowers(i) = {}
        /\ \E r \in map_to_virtual(h) :
               last' = Last("virtual", i, h.T, ~r.panic, h, h, r.f)
        /\ UNCHANGED <<overrides, handles, built, intoRaw, fromRaw, reRaw>>

\* handle.virtual_mut(): &mut self, P: DerefMut
VirtualMut(i) ==
    LET h == handles[i]
    IN  /\ Live(i) /\ Borrowers(i) = {}
        /\ h.kind = "mut"
        /\ \E r \in map_to_virtual(h) :
               last' = Last("virtual_mut", i, h.T, ~r.panic, h, h, r.f)
        /\ UNCHANGED <<overrides, handles, built, intoRaw, fromRaw, reRaw>>

\* The handle goes out of scope.
DropHandle(i) ==
    LET h == handles[i]
    IN  /\ Live(i) /\ Borrowers(i) = {}
        /\ handles' = [handles EXCEPT ![i] = NoHandle]
        /\ DropRuns(h)
        /\ last' = Last("drop", i, h.T, TRUE, h, NoHandle, NoConv)
        /\ UNCHANGED <<overrides, built, intoRaw>>

Next ==
    \/ \E i \in Slots, a \in Addr, kind \in Kinds, T \in Classes : From(i, a, kind, T)
    \/ \E i \in Slots, Q \in Classes : Upcast(i, Q)
    \/ \E i \in Slots, Q \in Classes : Downcast(i, Q)
    \/ \E i \in Slots, j \in Slots, U \in Classes : DowncastRef(i, j, U)
    \/ \E i \in Slots, j \in Slots, U \in Classes : DowncastMut(i, j, U)
    \/ \E i \in Slots : Virtual(i)
    \/ \E i \in Slots : VirtualMut(i)
    \/ \E i \in Slots : DropHandle(i)

Spec == Init /\ [][Next]_vars

\* Dispatch through one handle, over every program of InitVt.
NextVt ==
    \/ \E a \in Addr, kind \in Kinds, T \in Classes : From(1, a, kind, T)
    \/ \E Q \in Classes : Upcast(1, Q)
    \/ Virtual(1)
    \/ VirtualMut(1)
    \/ DropHandle(1)

SpecVt == InitVt /\ [][NextVt]_vars
\* ------------------------------------------------------------------ claims
Owners == {i \in Slots : Live(i) /\ handles[i].of = 0}

IsDispatch == last.op \in {"virtual", "virtual_mut"}

IsBorrowCast == last.op \in {"downcast_ref", "downcast_mut"}

\* C1: every handle, whatever casts produced it, holds the descriptor that
\* Handle::from bound to the class of the wrapped object.
C1_DescriptorBoundOnce ==
    /\ \A i \in Slots : Live(i) => handles[i].info = built.info
    /\ built # NoHandle => built.info = built.T
    /\ last.after # NoHandle => last.after.info = built.info

\* A borrowing handle made by downcast_ref or downcast_mut and then upcast.
C1_Witness ==
    /\ last.op = "upcast"
    /\ last.after.of # 0
    /\ last.after.T # last.after.info
    /\ handles[last.src] = last.after

\* C2: the pointer given to Handle::from is released exactly once: not while a
\* handle that owns it is alive, and once when the last one has been dropped.
C2_ReleasedExactlyOnce ==
    IF Owners # {} THEN fromRaw = 0 ELSE fromRaw = intoRaw

\* C3: downable(id) of class C holds exactly for the identities of the classes
\* of C's chain, C and the root included, and downcast to Q succeeds exactly
\* when Q is on the chain of the handle's concrete class.
C3_DownableIffOnChain ==
    /\ \A i \in Slots : Live(i) =>
           \A id \in TypeIds :
               downable(handles[i].info, id)
                   <=> \E A \in Chain(handles[i].info) : id = type_id(A)
    /\ last.op = "downcast" =>
           (last.ok <=> last.Q \in Chain(last.before.info))

\* C4: a handle built from a C object, upcast to an ancestor and downcast to C
\* again is the handle that was built: same pointer, same descriptor.
C4_RoundTrip ==
    (/\ last.op = "downcast"
     /\ last.prev = "upcast"
     /\ last.before.of = 0
     /\ last.Q = built.T)
        => /\ last.ok
           /\ last.after = built
           /\ handles[last.src] = built

\* C5: downcast to a class that is not on the chain of the handle's concrete
\* class fails and gives the handle back unchanged, with nothing released.
C5_Rejection ==
    (last.op = "downcast" /\ last.Q \notin Chain(last.before.info))
        => /\ ~last.ok
           /\ last.after = last.before
           /\ handles[last.src] = last.before
           /\ <<fromRaw, reRaw>> = last.rel

\* A Dog-built handle upcast to Animal and then downcast to Cat.
C5_Witness ==
    /\ last.op = "downcast"
    /\ last.prev = "upcast"
    /\ last.before.info = Dog
    /\ last.before.T = Animal
    /\ last.Q = Cat
    /\ ~last.ok

\* C6: the root's descriptor has depth 0 and its downable matches the root's
\* identity: a root-typed handle downcast to the root type succeeds.
C6_RootTriviality ==
    /\ depth(Object) = 0
    /\ last.op = "downcast" /\ last.before.T = Object /\ last.Q = Object
           => last.ok /\ downable(last.before.info, type_id(Object))
\* The class of C's chain at depth d, and the classes of the chain, from C
\* towards the root, that list it in their overrides.
LevelClass(C, d) == CHOOSE A \in Chain(C) : Len(A) = d

Overriders(C, d) == {X \in Chain(C) : LevelClass(C, d) \in overrides[X]}

\* The converter the nearest overrider installed, or the level's default.
Installed(C, d) ==
    LET V == LevelClass(C, d)
        Xs == Overriders(C, d)
    IN  IF Xs = {} THEN Conv(V, V)
        ELSE Conv(CHOOSE X \in Xs : \A Y \in Xs : Len(Y) <= Len(X), V)

\* C7: dispatch through a handle of concrete class C and static depth d calls
\* slot depth(C) - d of C's table, which holds the converter of the nearest
\* class of the chain that overrides level d, or the level's default; a class
\* that does not override the level dispatches as its parent does.
C7_OverrideVisibility ==
    IsDispatch =>
        LET C == last.before.info
            d == Len(last.before.T)
        IN  /\ last.ok
            /\ last.conv = TABLE(C)[(Len(C) - d) + 1]
            /\ last.conv = Installed(C, d)
            /\ (d < Len(C) /\ last.before.T \notin overrides[C])
                   => last.conv = TABLE(Pointed(C))[(Len(Pointed(C)) - d) + 1]

\* An upcast handle dispatches to the override of its concrete class, which
\* has an ancestor that overrides the same level too.
C7_Witness ==
    /\ IsDispatch
    /\ last.before.T # last.before.info
    /\ Cardinality(Overriders(last.before.info, Len(last.before.T))) = 2
    /\ last.conv = Conv(last.before.info, last.before.T)

\* C8: the table of a class at depth N has N + 1 slots, the own-level slot
\* followed by the parent's table, slot for slot but for the overridden ones.
C8_SuffixContainment ==
    \A C \in Classes :
        /\ Len(TABLE(C)) = depth(C) + 1
        /\ C # Object =>
               /\ TABLE(C)[1] = Conv(C, C)
               /\ \A k \in 1..Len(TABLE(Pointed(C))) :
                      IF LevelClass(C, Len(C) - k) \in overrides[C]
                      THEN TABLE(C)[k + 1] = Conv(C, LevelClass(C, Len(C) - k))
                      ELSE TABLE(C)[k + 1] = TABLE(Pointed(C))[k]

\* A class that overrides the root level and inherits an overridden slot from
\* its parent, dispatched through.
C8_Witness ==
    /\ IsDispatch
    /\ \E C \in Classes :
           /\ Len(C) >= 2
           /\ Object \in overrides[C]
           /\ Pointed(C) \in overrides[Pointed(C)] \/ Object \in overrides[Pointed(C)]
           /\ last.before.info = C

\* C9: downcast_ref and downcast_mut make the check of downcast; on success
\* the new handle borrows the original with its pointer and descriptor, on
\* failure there is none; the original is as it was, and nothing is released.
C9_BorrowingDowncast ==
    IsBorrowCast =>
        /\ last.ok <=> downcast(last.before, last.Q).ok
        /\ last.ok =>
               /\ last.after.ptr = last.before.ptr
               /\ last.after.info = last.before.info
               /\ last.after.T = last.Q
               /\ last.after.of = last.src
               /\ last.after.kind = (IF last.op = "downcast_ref" THEN "ref" ELSE "mut")
               /\ \E j \in Slots \ {last.src} : handles[j] = last.after
        /\ ~last.ok => last.after = NoHandle
        /\ handles[last.src] = last.before
        /\ <<fromRaw, reRaw>> = last.rel

\* downcast_ref of a handle that was upcast, back to its concrete class.
C9_Witness ==
    /\ last.op = "downcast_ref"
    /\ last.ok
    /\ last.before.T # last.before.info
    /\ last.Q = last.before.info
    /\ Live(last.src)

\* C10: the static class of every handle is on the chain of its concrete
\* class, so the u16 subtraction of map_to_virtual neither panics nor wraps
\* and the slot it yields is one of the concrete class's table.
C10_OffsetInTable ==
    \A i \in Slots : Live(i) =>
        LET h == handles[i]
        IN  /\ h.T \in Chain(h.info)
            /\ depth(h.info) >= depth(h.T)
            /\ offsetOf(h) = {depth(h.info) - depth(h.T)}
            /\ \A offset \in offsetOf(h) :
                   offset # Panic /\ offset + 1 <= Len(TABLE(h.info))

\* Dispatch through a borrowing handle that was downcast and upcast again.
C10_Witness ==
    /\ IsDispatch
    /\ last.ok
    /\ last.before.of # 0
    /\ last.before.T # last.before.info
    /\ last.prev = "upcast"
====
